---- MODULE Spec2Model ----
(***************************************************************************)
(* A model of the golangAnnotations source parser (parser/parser.go) and   *)
(* of the REST annotation validators (restAnnotation).                     *)
(*                                                                         *)
(* The go/ast syntax tree is the input.  A type expression (ast.Expr) is a *)
(* chain of unary constructors (ArrayType, StarExpr) over a leaf (Ident,   *)
(* SelectorExpr, MapType, FuncType); it is kept as the record              *)
(* [mods, leaf], where mods is the chain from the outside in.  A nil       *)
(* pointer is a record whose isNil is TRUE.                                *)
(***************************************************************************)
EXTENDS Naturals, Sequences, FiniteSets

VARIABLES
    \* ---- ParseSourceDir ----
    dir,            \* the files of the directory dirName
    filenameRegex,  \* the filename pattern
    pc,             \* position of ParseSourceDir
    pending,        \* parser.ParseDir: selected files not parsed yet
    packages,       \* parser.ParseDir: the files parsed without error
    first,          \* parser.ParseDir: the first parse error
    v,              \* the AstVisitor
    curPkg,         \* the package whose files are being walked
    curFile,        \* ast.Walk: the file being walked
    pos,            \* ast.Walk: the next call of Visit to make for that file
    walked,         \* the files walked so far, in order
    allStructs,     \* cross-linking: struct name -> index into v.Structs
    idx,            \* cross-linking: loop index over v.Operations
    result,         \* what ParseSourceDir returns
    \* ---- extractFieldList / extractFields ----
    fl,             \* the ast.FieldList given
    fpc,            \* position of extractFieldList
    fields,         \* the []model.Field built so far
    \* ---- annotation validators ----
    registry,       \* the annotation registry
    annot,          \* the annotation under validation
    verdict         \* the last validator result

parserVars == <<dir, filenameRegex, pc, pending, packages, first, v, curPkg,
                curFile, pos, walked, allStructs, idx, result>>
fieldVars == <<fl, fpc, fields>>
annotVars == <<registry, annot, verdict>>
vars == <<parserVars, fieldVars, annotVars>>

\* ------------------------------------------------------------------ bounds

MaxNames == 2        \* names sharing one type expression in a field declaration
MaxFieldDecls == 2   \* declarations in one field list
MaxTypeDepth == 2    \* ArrayType / StarExpr constructors around a leaf type
MaxFiles == 3        \* files in the scanned directory

\* ------------------------------------------------------------- sequences

RECURSIVE SeqsUpTo(_, _)
SeqsUpTo(S, n) ==
    IF n = 0 THEN {<<>>}
    ELSE LET shorter == SeqsUpTo(S, n - 1)
         IN shorter \cup {Append(s, x) : s \in {t \in shorter : Len(t) = n - 1}, x \in S}

RECURSIVE Flatten(_)
Flatten(ss) == IF ss = <<>> THEN <<>> ELSE Head(ss) \o Flatten(Tail(ss))

\* ----------------------------------------------------------- go/ast values

NilGroup == [isNil |-> TRUE, List |-> <<>>]
Group(texts) == [isNil |-> FALSE, List |-> [i \in 1..Len(texts) |-> [Text |-> texts[i]]]]
NilTag == [isNil |-> TRUE, Value |-> ""]
Tag(value) == [isNil |-> FALSE, Value |-> value]

Ident(name) == [mods |-> <<>>, leaf |-> [kind |-> "Ident", name |-> name]]
Selector(name) == [mods |-> <<>>, leaf |-> [kind |-> "SelectorExpr", name |-> name]]
MapType == [mods |-> <<>>, leaf |-> [kind |-> "MapType", name |-> ""]]
FuncType == [mods |-> <<>>, leaf |-> [kind |-> "FuncType", name |-> ""]]
Star(e) == [mods |-> <<"StarExpr">> \o e.mods, leaf |-> e.leaf]
Array(e) == [mods |-> <<"ArrayType">> \o e.mods, leaf |-> e.leaf]

\* The dynamic type of an expression node, and its operand (arr.Elt, star.X).
Kind(e) == IF e.mods # <<>> THEN Head(e.mods) ELSE e.leaf.kind
Operand(e) == [mods |-> Tail(e.mods), leaf |-> e.leaf]

AstField(names, type, doc, comment, tag) ==
    [Names |-> names, Type |-> type, Doc |-> doc, Comment |-> comment, Tag |-> tag]
Param(names, type) == AstField(names, type, NilGroup, NilGroup, NilTag)

NilFieldList == [isNil |-> TRUE, List |-> <<>>]
FieldList(list) == [isNil |-> FALSE, List |-> list]

\* ------------------------------------------------------------ model values

EmptyField ==
    [Name |-> "", TypeName |-> "", IsPointer |-> FALSE, IsSlice |-> FALSE,
     Tag |-> "", DocLines |-> <<>>, CommentLines |-> <<>>]

\* ------------------------------------------------------------- extraction

extractDocLines(doc) ==
    IF doc.isNil THEN <<>>
    ELSE [i \in 1..Len(doc.List) |-> doc.List[i].Text]

extractComments(comment) ==
    IF comment.isNil THEN <<>>
    ELSE [i \in 1..Len(comment.List) |-> comment.List[i].Text]

extractTag(tag) ==
    IF ~tag.isNil THEN [value |-> tag.Value, found |-> TRUE]
    ELSE [value |-> "", found |-> FALSE]

\* The three blocks of _extractField run one after the other, each testing the
\* dynamic type of input.Type on its own.
extractFieldArrayBlock(field, type) ==
    IF Kind(type) = "ArrayType"
    THEN LET elt == Operand(type)
             f0 == [field EXCEPT !.IsSlice = TRUE]
             f1 == IF Kind(elt) = "Ident"
                   THEN [f0 EXCEPT !.TypeName = elt.leaf.name]
                   ELSE f0
             f2 == IF Kind(elt) = "StarExpr" /\ Kind(Operand(elt)) = "Ident"
                   THEN [f1 EXCEPT !.TypeName = Operand(elt).leaf.name,
                                   !.IsPointer = TRUE]
                   ELSE f1
         IN f2
    ELSE field

extractFieldStarBlock(field, type) ==
    IF Kind(type) = "StarExpr" /\ Kind(Operand(type)) = "Ident"
    THEN [field EXCEPT !.TypeName = Operand(type).leaf.name, !.IsPointer = TRUE]
    ELSE field

extractFieldIdentBlock(field, type) ==
    IF Kind(type) = "Ident"
    THEN [field EXCEPT !.TypeName = type.leaf.name]
    ELSE field

extractFieldSelectorBlock(field, type) ==
    IF Kind(type) \in {"Ident", "SelectorExpr"}
    THEN [field EXCEPT !.TypeName = type.leaf.name]
    ELSE field

extractFieldResolvingSelectors(input) ==
    LET tag == extractTag(input.Tag)
        f0 == [EmptyField EXCEPT !.DocLines = extractDocLines(input.Doc),
                                 !.CommentLines = extractComments(input.Comment),
                                 !.Tag = IF tag.found THEN tag.value ELSE ""]
    IN extractFieldSelectorBlock(
           extractFieldStarBlock(extractFieldArrayBlock(f0, input.Type), input.Type),
           input.Type)

_extractField(input) ==
    LET tag == extractTag(input.Tag)
        f0 == [EmptyField EXCEPT !.DocLines = extractDocLines(input.Doc),
                                 !.CommentLines = extractComments(input.Comment),
                                 !.Tag = IF tag.found THEN tag.value ELSE ""]
    IN extractFieldIdentBlock(
           extractFieldStarBlock(extractFieldArrayBlock(f0, input.Type), input.Type),
           input.Type)

extractFieldsFirstNameOnly(input) ==
    IF Len(input.Names) = 0
    THEN <<_extractField(input)>>
    ELSE <<[_extractField(input) EXCEPT !.Name = input.Names[1]]>>

extractFields(input) ==
    IF Len(input.Names) = 0
    THEN <<_extractField(input)>>
    ELSE [i \in 1..Len(input.Names) |->
             [_extractField(input) EXCEPT !.Name = input.Names[i]]]

extractFieldList(list) ==
    IF list.isNil THEN <<>>
    ELSE Flatten([i \in 1..Len(list.List) |-> extractFields(list.List[i])])

\* ------------------------------------------------ inputs of the field extractor

IdentNames == <<"x", "y", "z", "w">>
NameSeq(n) == [i \in 1..n |-> IdentNames[i]]

TypeLeaves == {Ident("Person"), Selector("Time"), MapType, FuncType}
TypeExprs ==
    {[mods |-> m, leaf |-> l.leaf] :
        m \in SeqsUpTo({"ArrayType", "StarExpr"}, MaxTypeDepth), l \in TypeLeaves}
SampleTypes == {Ident("Person"), Star(Ident("Person")), Array(Star(Ident("Person"))), MapType}

\* One declaration over every type shape, with and without doc, comment and tag.
AnyTypeDecls ==
    {AstField(NameSeq(n), t, d.doc, d.comment, d.tag) :
        n \in 0..MaxNames, t \in TypeExprs,
        d \in {[doc |-> NilGroup, comment |-> NilGroup, tag |-> NilTag],
               [doc |-> Group(<<"// the key">>), comment |-> Group(<<"// unique">>),
                tag |-> Tag("json:key")]}}
SampleDecls == {Param(NameSeq(n), t) : n \in 0..MaxNames, t \in SampleTypes}

FieldLists ==
    {NilFieldList}
    \cup {FieldList(<<d>>) : d \in AnyTypeDecls}
    \cup {FieldList(l) : l \in SeqsUpTo(SampleDecls, MaxFieldDecls)}

\* --------------------------------------------------------- idle components

EmptyVisitor ==
    [PackageName |-> "", Structs |-> <<>>, Operations |-> <<>>, Interfaces |-> <<>>]

ParserIdle ==
    /\ dir = {} /\ filenameRegex = "" /\ pc = "idle" /\ pending = {}
    /\ packages = {} /\ first = "" /\ curPkg = "" /\ pos = 0
    /\ v = EmptyVisitor
    /\ curFile = "" /\ walked = <<>> /\ allStructs = {} /\ idx = 0
    /\ result = [returned |-> FALSE, isNil |-> TRUE, err |-> ""]
FieldsIdle == fl = NilFieldList /\ fpc = "idle" /\ fields = <<>>
AnnotIdle ==
    /\ registry = {}
    /\ annot = [Name |-> "", Attributes |-> {}]
    /\ verdict = [schema |-> "", valid |-> FALSE]

\* ------------------------------------------- specification: field extraction

FieldsInit ==
    /\ fl \in FieldLists
    /\ fpc = "start"
    /\ fields = <<>>
    /\ ParserIdle /\ AnnotIdle

ExtractFieldListCall ==
    /\ fpc = "start"
    /\ fields' = extractFieldList(fl)
    /\ fpc' = "done"
    /\ UNCHANGED <<fl, parserVars, annotVars>>

FieldsNext == ExtractFieldListCall

SpecFields == FieldsInit /\ [][FieldsNext]_vars

\* The declarations of the list given, and the part of the result that
\* belongs to the i-th of them if every declaration yields Count fields.
Decls == fl.List
Count(decl) == IF Len(decl.Names) = 0 THEN 1 ELSE Len(decl.Names)
RECURSIVE Offset(_)
Offset(i) == IF i = 1 THEN 0 ELSE Offset(i - 1) + Count(Decls[i - 1])
TotalCount == IF Decls = <<>> THEN 0 ELSE Offset(Len(Decls)) + Count(Decls[Len(Decls)])
Shape(f) == <<f.TypeName, f.IsPointer, f.IsSlice>>

\* C3: a declaration with n >= 1 names yields n Fields in declaration order,
\* named as declared and alike in TypeName, IsPointer and IsSlice; one with no
\* name yields one Field with the empty Name; a field list yields the
\* concatenation of its declarations' Fields.
C3_FieldMultiplicity ==
    fpc = "done" =>
        /\ Len(fields) = TotalCount
        /\ \A i \in 1..Len(Decls) :
              \A k \in 1..Count(Decls[i]) :
                 /\ fields[Offset(i) + k].Name =
                       (IF Len(Decls[i].Names) = 0 THEN "" ELSE Decls[i].Names[k])
                 /\ Shape(fields[Offset(i) + k]) = Shape(fields[Offset(i) + 1])

C3_Witness ==
    /\ fpc = "done"
    /\ Len(Decls) = 2
    /\ Len(Decls[1].Names) = 2
    /\ Len(Decls[2].Names) = 0
    /\ Len(fields) = 3
    /\ fields[2].Name = "y"
    /\ fields[2].TypeName = "Person"
    /\ fields[3].Name = ""

Recognized(type) == Kind(type) \in {"ArrayType", "StarExpr", "Ident"}

\* C9: a declaration whose type expression is no array/slice, pointer or plain
\* named type yields Fields with the empty TypeName and both flags false, as
\* many of them as a declaration of a recognized type.
C9_UnrecognizedShapeDegrades ==
    fpc = "done" =>
        /\ Len(fields) = TotalCount
        /\ \A i \in 1..Len(Decls) :
              ~Recognized(Decls[i].Type) =>
                 \A k \in 1..Count(Decls[i]) :
                    Shape(fields[Offset(i) + k]) = <<"", FALSE, FALSE>>

C9_Witness ==
    /\ fpc = "done"
    /\ Len(Decls) = 1
    /\ Kind(Decls[1].Type) = "SelectorExpr"
    /\ Len(Decls[1].Names) = 2
    /\ Len(fields) = 2
    /\ fields[2].TypeName = ""

\* The name a type expression declares when it is a plain named type.
DeclaredName(type) == IF Kind(type) = "Ident" THEN type.leaf.name ELSE ""

\* C4: an array/slice of X sets IsSlice, and IsPointer with TypeName = Y when X
\* is a pointer to Y, TypeName = X otherwise; a pointer to Y sets IsPointer and
\* TypeName = Y and not IsSlice; a plain named type sets TypeName alone.
\* IsPointer is set whatever the shape of the pointee.
C4_TypeResolutionPrecedence ==
    fpc = "done" /\ Len(fields) = TotalCount =>
        \A i \in 1..Len(Decls) :
           LET type == Decls[i].Type
               f == fields[Offset(i) + 1]
           IN /\ Kind(type) = "ArrayType" =>
                    /\ f.IsSlice
                    /\ IF Kind(Operand(type)) = "StarExpr"
                       THEN f.IsPointer
                            /\ f.TypeName = DeclaredName(Operand(Operand(type)))
                       ELSE f.TypeName = DeclaredName(Operand(type))
              /\ Kind(type) = "StarExpr" =>
                    /\ f.IsPointer
                    /\ ~f.IsSlice
                    /\ f.TypeName = DeclaredName(Operand(type))
              /\ Kind(type) = "Ident" =>
                    /\ f.TypeName = type.leaf.name
                    /\ ~f.IsPointer
                    /\ ~f.IsSlice

\* ------------------------------------------------------ annotation validators

typeRestOperation == "RestOperation"
typeRestService == "RestService"
paramPath == "path"
paramMethod == "method"

\* annot.Attributes is a map[string]string, kept as its set of key/value pairs;
\* reading an absent key gives the empty string and ok = false.
Has(attributes, key) == \E p \in attributes : p.key = key
Get(attributes, key) ==
    IF Has(attributes, key) THEN (CHOOSE p \in attributes : p.key = key).value ELSE ""

validateRestOperationAnnotation(a) ==
    IF a.Name = typeRestOperation
    THEN LET path == Get(a.Attributes, paramPath)
             hasPath == Has(a.Attributes, paramPath)
             method == Get(a.Attributes, paramMethod)
             hasMethod == Has(a.Attributes, paramMethod)
         IN (hasPath /\ path # "") /\ hasMethod /\ method # ""
    ELSE FALSE

validateRestServiceAnnotation(a) ==
    IF a.Name = typeRestService
    THEN Has(a.Attributes, paramPath)
    ELSE FALSE

\* What Register hands to annotation.RegisterAnnotation.
RegisteredSchemas ==
    {[name |-> typeRestOperation, requiredAttributeNames |-> <<paramMethod, paramPath>>,
      validator |-> "validateRestOperationAnnotation"],
     [name |-> typeRestService, requiredAttributeNames |-> <<paramPath>>,
      validator |-> "validateRestServiceAnnotation"]}

AttributeValues == {"", "/person", "GET"}
AttributeMaps ==
    {ps \cup ms :
        ps \in {{}} \cup {{[key |-> paramPath, value |-> x]} : x \in AttributeValues},
        ms \in {{}} \cup {{[key |-> paramMethod, value |-> x]} : x \in AttributeValues}}
Annotations ==
    {[Name |-> n, Attributes |-> a] :
        n \in {typeRestOperation, typeRestService, "Event"}, a \in AttributeMaps}

AnnotInit ==
    /\ registry = {}
    /\ annot \in Annotations
    /\ verdict = [schema |-> "", valid |-> FALSE]
    /\ ParserIdle /\ FieldsIdle

\* Register: a schema registered under a name replaces the one of that name.
Register ==
    /\ registry' = {s \in registry : \A r \in RegisteredSchemas : r.name # s.name}
                      \cup RegisteredSchemas
    /\ UNCHANGED <<annot, verdict, parserVars, fieldVars>>

CallRestOperationValidator ==
    /\ \E s \in registry : s.validator = "validateRestOperationAnnotation"
    /\ verdict' = [schema |-> typeRestOperation,
                   valid |-> validateRestOperationAnnotation(annot)]
    /\ UNCHANGED <<registry, annot, parserVars, fieldVars>>

CallRestServiceValidator ==
    /\ \E s \in registry : s.validator = "validateRestServiceAnnotation"
    /\ verdict' = [schema |-> typeRestService,
                   valid |-> validateRestServiceAnnotation(annot)]
    /\ UNCHANGED <<registry, annot, parserVars, fieldVars>>

AnnotNext == Register \/ CallRestOperationValidator \/ CallRestServiceValidator

SpecAnnotations == AnnotInit /\ [][AnnotNext]_vars

\* C5: a registered validator accepts an annotation exactly when its Name is
\* the schema's name and every required attribute of the schema is present
\* with a non-empty value.
C5_RequiredAttributesNonEmpty ==
    \A s \in registry :
       verdict.schema = s.name =>
          verdict.valid =
             (/\ annot.Name = s.name
              /\ \A i \in 1..Len(s.requiredAttributeNames) :
                    /\ Has(annot.Attributes, s.requiredAttributeNames[i])
                    /\ Get(annot.Attributes, s.requiredAttributeNames[i]) # "")

\* --------------------------------------------------- go/ast declaration nodes

NilNode == [kind |-> "nil"]
IdentNode(name) == [kind |-> "Ident", Name |-> name]
StructType(fieldDecls) == [kind |-> "StructType", Fields |-> FieldList(fieldDecls)]
InterfaceType(methods) == [kind |-> "InterfaceType", Methods |-> FieldList(methods)]
MethodType(params, results) == [kind |-> "FuncType", Params |-> params, Results |-> results]
Method(doc, name, params, results) ==
    AstField(<<name>>, MethodType(params, results), doc, NilGroup, NilTag)
TypeSpec(doc, name, type) == [kind |-> "TypeSpec", Doc |-> doc, Name |-> name, Type |-> type]
ImportSpec(path) == [kind |-> "ImportSpec", Path |-> path]
GenDecl(doc, lparen, specs) ==
    [kind |-> "GenDecl", Doc |-> doc, Lparen |-> lparen, Specs |-> specs]
FuncDecl(doc, recv, name, params, results) ==
    [kind |-> "FuncDecl", Doc |-> doc, Recv |-> recv, Name |-> name,
     Type |-> [Params |-> params, Results |-> results]]
AstFile(name, decls) == [kind |-> "File", Name |-> name, Decls |-> decls]

\* The dynamic type of any node: declaration nodes carry it, expressions have
\* it from their outermost constructor.
NodeKind(n) == IF "kind" \in DOMAIN n THEN n.kind ELSE Kind(n)

\* ----------------------------------------------------- declaration extractors

EmptyStruct ==
    [Name |-> "", PackageName |-> "", Fields |-> <<>>, DocLines |-> <<>>,
     Operations |-> <<>>]
EmptyInterface == [Name |-> "", PackageName |-> "", Methods |-> <<>>, DocLines |-> <<>>]
EmptyOperation ==
    [Name |-> "", PackageName |-> "", DocLines |-> <<>>, RelatedStruct |-> <<>>,
     InputArgs |-> <<>>, OutputArgs |-> <<>>]

extractPackageName(node) ==
    IF node.kind = "File"
    THEN [name |-> node.Name, found |-> TRUE]
    ELSE [name |-> "", found |-> FALSE]

extractSpecsForStruct(specs) ==
    IF Len(specs) >= 1 /\ specs[1].kind = "TypeSpec"
    THEN LET ts == specs[1]
             str == [EmptyStruct EXCEPT !.Name = ts.Name]
         IN IF NodeKind(ts.Type) = "StructType"
            THEN [str |-> [str EXCEPT !.Fields = extractFieldList(ts.Type.Fields)],
                  found |-> TRUE]
            ELSE [str |-> str, found |-> FALSE]
    ELSE [str |-> EmptyStruct, found |-> FALSE]

extractGenDeclForStruct(node) ==
    IF node.kind = "GenDecl"
    THEN LET r == extractSpecsForStruct(node.Specs)
         IN [str |-> [r.str EXCEPT !.DocLines = extractDocLines(node.Doc)],
             found |-> r.found]
    ELSE [str |-> EmptyStruct, found |-> FALSE]

\* One method of an interface: the Operation appended for it, if any.
extractInterfaceMethod(m) ==
    IF Len(m.Names) > 0 /\ NodeKind(m.Type) = "FuncType"
    THEN <<[EmptyOperation EXCEPT
               !.DocLines = extractDocLines(m.Doc),
               !.Name = m.Names[1],
               !.InputArgs = extractFieldList(m.Type.Params),
               !.OutputArgs = extractFieldList(m.Type.Results)]>>
    ELSE <<>>

extractInterfaceMethods(list) ==
    Flatten([i \in 1..Len(list.List) |-> extractInterfaceMethod(list.List[i])])

extractSpecsForInterface(specs) ==
    IF Len(specs) >= 1 /\ specs[1].kind = "TypeSpec"
    THEN LET ts == specs[1]
             interf == [EmptyInterface EXCEPT !.Name = ts.Name]
         IN IF NodeKind(ts.Type) = "InterfaceType"
            THEN [iface |-> [interf EXCEPT
                                !.Methods = extractInterfaceMethods(ts.Type.Methods)],
                  found |-> TRUE]
            ELSE [iface |-> interf, found |-> FALSE]
    ELSE [iface |-> EmptyInterface, found |-> FALSE]

extractGenDecForInterface(node) ==
    IF node.kind = "GenDecl"
    THEN LET r == extractSpecsForInterface(node.Specs)
         IN [iface |-> [r.iface EXCEPT !.DocLines = extractDocLines(node.Doc)],
             found |-> r.found]
    ELSE [iface |-> EmptyInterface, found |-> FALSE]

extractOperation(node) ==
    IF node.kind = "FuncDecl"
    THEN LET recvd == extractFieldList(node.Recv)
         IN [operation |->
                [EmptyOperation EXCEPT
                    !.DocLines = extractDocLines(node.Doc),
                    !.RelatedStruct = IF Len(recvd) >= 1 THEN <<recvd[1]>> ELSE <<>>,
                    !.Name = node.Name,
                    !.InputArgs = extractFieldList(node.Type.Params),
                    !.OutputArgs = extractFieldList(node.Type.Results)],
             found |-> TRUE]
    ELSE [operation |-> EmptyOperation, found |-> FALSE]

\* AstVisitor.Visit: the visitor after the call for one node.
Visit(vis, node) ==
    IF node.kind = "nil" THEN vis
    ELSE LET p == extractPackageName(node)
             v1 == IF p.found THEN [vis EXCEPT !.PackageName = p.name] ELSE vis
             s == extractGenDeclForStruct(node)
             v2 == IF s.found
                   THEN [v1 EXCEPT !.Structs =
                            Append(@, [s.str EXCEPT !.PackageName = v1.PackageName])]
                   ELSE v1
             f == extractGenDecForInterface(node)
             v3 == IF f.found
                   THEN [v2 EXCEPT !.Interfaces =
                            Append(@, [f.iface EXCEPT !.PackageName = v2.PackageName])]
                   ELSE v2
             o == extractOperation(node)
             v4 == IF o.found
                   THEN [v3 EXCEPT !.Operations =
                            Append(@, [o.operation EXCEPT
                                          !.PackageName = v3.PackageName])]
                   ELSE v3
         IN v4

\* ast.Walk: the nodes handed to Visit for one file, in order.  Walk calls
\* Visit for a node, walks the node's children, then calls Visit(nil).
WalkSpec(spec) ==
    IF spec.kind = "TypeSpec"
    THEN <<spec, IdentNode(spec.Name), NilNode, NilNode>>
    ELSE <<spec, NilNode>>
WalkDecl(decl) ==
    IF decl.kind = "GenDecl"
    THEN <<decl>> \o Flatten([i \in 1..Len(decl.Specs) |-> WalkSpec(decl.Specs[i])])
            \o <<NilNode>>
    ELSE <<decl, IdentNode(decl.Name), NilNode, NilNode>>
Walk(file) ==
    <<file, IdentNode(file.Name), NilNode>>
       \o Flatten([i \in 1..Len(file.Decls) |-> WalkDecl(file.Decls[i])])
       \o <<NilNode>>

\* ------------------------------------------------------------ the source files

Doc(text) == Group(<<text>>)
NoNames == <<>>

\* package operations
\* // @RestService( path = "/api" )
\* // docline for Service
\* type Service struct { name string }
\* // docline for getPersons
\* func (serv *Service) getPersons() ([]Person, error)
ServiceGo ==
    [name |-> "service.go", tokens |-> <<"service", ".go">>, bad |-> FALSE,
     ast |-> AstFile("operations", <<
        GenDecl(Group(<<"// @RestService( path = /api )", "// docline for Service">>),
                FALSE,
                <<TypeSpec(NilGroup, "Service",
                           StructType(<<Param(<<"name">>, Ident("string"))>>))>>),
        FuncDecl(Doc("// docline for getPersons"),
                 FieldList(<<Param(<<"serv">>, Star(Ident("Service")))>>),
                 "getPersons",
                 FieldList(<<>>),
                 FieldList(<<Param(NoNames, Array(Ident("Person"))),
                             Param(NoNames, Ident("error"))>>)) >>)]

\* package operations
\* // docline for getPerson
\* func (s Service) getPerson(uid string) (Person, *Person, error)
\* type Person struct { first, last string }
PersonGo ==
    [name |-> "person.go", tokens |-> <<"person", ".go">>, bad |-> FALSE,
     ast |-> AstFile("operations", <<
        FuncDecl(Doc("// docline for getPerson"),
                 FieldList(<<Param(<<"s">>, Ident("Service"))>>),
                 "getPerson",
                 FieldList(<<Param(<<"uid">>, Ident("string"))>>),
                 FieldList(<<Param(NoNames, Ident("Person")),
                             Param(NoNames, Star(Ident("Person"))),
                             Param(NoNames, Ident("error"))>>)),
        GenDecl(NilGroup, FALSE,
                <<TypeSpec(NilGroup, "Person",
                           StructType(<<Param(<<"first", "last">>, Ident("string"))>>))>>) >>)]

\* package operations
\* import "time"
\* type Service struct { fd int }
\* func (s *Service) touch(at *time.Time) error
ServiceLinuxGo ==
    [name |-> "service_linux.go", tokens |-> <<"service", "_linux", ".go">>, bad |-> FALSE,
     ast |-> AstFile("operations", <<
        GenDecl(NilGroup, FALSE, <<ImportSpec("time")>>),
        GenDecl(NilGroup, FALSE,
                <<TypeSpec(NilGroup, "Service",
                           StructType(<<Param(<<"fd">>, Ident("int"))>>))>>),
        FuncDecl(NilGroup,
                 FieldList(<<Param(<<"s">>, Star(Ident("Service")))>>),
                 "touch",
                 FieldList(<<Param(<<"at">>, Star(Selector("Time")))>>),
                 FieldList(<<Param(NoNames, Ident("error"))>>)) >>)]

\* package model
\* // the event types
\* type (
\*     // @Event( aggregate = person )
\*     Event struct { Uid string }
\*     // docline for Envelope
\*     Envelope struct { Events []*Event }
\* )
\* // docline for Handler
\* type Handler interface {
\*     // docline for Handle
\*     Handle(e Event) error
\*     io.Closer
\* }
TypesGo ==
    [name |-> "types.go", tokens |-> <<"types", ".go">>, bad |-> FALSE,
     ast |-> AstFile("model", <<
        GenDecl(Doc("// the event types"), TRUE,
                <<TypeSpec(Doc("// @Event( aggregate = person )"), "Event",
                           StructType(<<AstField(<<"Uid">>, Ident("string"), NilGroup,
                                                 NilGroup, Tag("json:uid"))>>)),
                  TypeSpec(Doc("// docline for Envelope"), "Envelope",
                           StructType(<<Param(<<"Events">>,
                                              Array(Star(Ident("Event"))))>>))>>),
        GenDecl(Doc("// docline for Handler"), FALSE,
                <<TypeSpec(NilGroup, "Handler",
                           InterfaceType(<<
                              Method(Doc("// docline for Handle"), "Handle",
                                     FieldList(<<Param(<<"e">>, Ident("Event"))>>),
                                     FieldList(<<Param(NoNames, Ident("error"))>>)),
                              Param(NoNames, Selector("Closer"))>>))>>) >>)]

\* package client
\* func (c *Client) call(args map[string]string)
\* func main()
ClientGo ==
    [name |-> "client.go", tokens |-> <<"client", ".go">>, bad |-> FALSE,
     ast |-> AstFile("client", <<
        FuncDecl(NilGroup,
                 FieldList(<<Param(<<"c">>, Star(Ident("Client")))>>),
                 "call",
                 FieldList(<<Param(<<"args">>, MapType)>>),
                 NilFieldList),
        FuncDecl(NilGroup, NilFieldList, "main", FieldList(<<>>), NilFieldList) >>)]

\* A file the parser rejects: parser.ParseFile returns an error for it.
BrokenGo ==
    [name |-> "broken.go", tokens |-> <<"broken", ".go">>, bad |-> TRUE,
     ast |-> AstFile("", <<>>)]

Catalogue == {ServiceGo, PersonGo, ServiceLinuxGo, TypesGo, ClientGo, BrokenGo}
FileNames == {f.name : f \in Catalogue}
SourceFile(name) == CHOOSE f \in Catalogue : f.name = name
PackageOf(name) == SourceFile(name).ast.Name

\* The filename patterns tried: one that matches every name, one literal.
Patterns == {".*", "service"}
MatchString(pattern, name) ==
    \/ pattern = ".*"
    \/ \E i \in 1..Len(SourceFile(name).tokens) : SourceFile(name).tokens[i] = pattern

\* ------------------------------------------- specification: ParseSourceDir

Init ==
    /\ dir \in {d \in SUBSET FileNames : d # {} /\ Cardinality(d) <= MaxFiles}
    /\ filenameRegex \in Patterns
    /\ pc = "start"
    /\ pending = {}
    /\ packages = {}
    /\ first = ""
    /\ v = EmptyVisitor
    /\ curPkg = ""
    /\ curFile = ""
    /\ pos = 0
    /\ walked = <<>>
    /\ allStructs = {}
    /\ idx = 0
    /\ result = [returned |-> FALSE, isNil |-> TRUE, err |-> ""]
    /\ FieldsIdle /\ AnnotIdle

\* parseDir: parser.ParseDir lists the directory and keeps the files the
\* filter accepts.
parseDir ==
    /\ pc = "start"
    /\ pending' = {f \in dir : MatchString(filenameRegex, f)}
    /\ pc' = "parseDir"
    /\ UNCHANGED <<dir, filenameRegex, packages, first, v, curPkg, curFile, pos,
                   walked, allStructs, idx, result, fieldVars, annotVars>>

\* parser.ParseDir parses one more file: a file that parses joins its
\* package, the first error met is kept and parsing goes on.
ParseFile ==
    /\ pc = "parseDir"
    /\ \E f \in pending :
          /\ pending' = pending \ {f}
          /\ IF SourceFile(f).bad
             THEN /\ first' = (IF first = "" THEN f ELSE first)
                  /\ UNCHANGED packages
             ELSE /\ packages' = packages \cup {f}
                  /\ UNCHANGED first
    /\ UNCHANGED <<dir, filenameRegex, pc, v, curPkg, curFile, pos, walked,
                   allStructs, idx, result, fieldVars, annotVars>>

CheckErrUnlessSomeFileParsed ==
    /\ pc = "parseDir"
    /\ pending = {}
    /\ IF first # "" /\ packages = {}
       THEN /\ result' = [returned |-> TRUE, isNil |-> TRUE, err |-> first]
            /\ pc' = "done"
       ELSE /\ pc' = "walk"
            /\ UNCHANGED result
    /\ UNCHANGED <<dir, filenameRegex, pending, packages, first, v, curPkg, curFile,
                   pos, walked, allStructs, idx, fieldVars, annotVars>>

\* ParseSourceDir, on the return of parseDir: an error ends the call.
CheckErr ==
    /\ pc = "parseDir"
    /\ pending = {}
    /\ IF first # ""
       THEN /\ result' = [returned |-> TRUE, isNil |-> TRUE, err |-> first]
            /\ pc' = "done"
       ELSE /\ pc' = "walk"
            /\ UNCHANGED result
    /\ UNCHANGED <<dir, filenameRegex, pending, packages, first, v, curPkg, curFile,
                   pos, walked, allStructs, idx, fieldVars, annotVars>>

Range(s) == {s[i] : i \in 1..Len(s)}
WalkDone == IF pos = 0 THEN TRUE ELSE pos > Len(Walk(SourceFile(curFile).ast))

\* The two range loops over packages and p.Files, both Go maps: the packages
\* come in any order, and so do the files of one package.
WalkFile ==
    /\ pc = "walk"
    /\ WalkDone
    /\ LET rest == packages \ Range(walked)
           same == {f \in rest : PackageOf(f) = curPkg}
       IN \E f \in (IF same # {} THEN same ELSE rest) :
             /\ curFile' = f
             /\ curPkg' = PackageOf(f)
             /\ walked' = Append(walked, f)
             /\ pos' = 1
    /\ UNCHANGED <<dir, filenameRegex, pc, pending, packages, first, v, allStructs,
                   idx, result, fieldVars, annotVars>>

VisitNode ==
    /\ pc = "walk"
    /\ ~WalkDone
    /\ v' = Visit(v, Walk(SourceFile(curFile).ast)[pos])
    /\ pos' = pos + 1
    /\ UNCHANGED <<dir, filenameRegex, pc, pending, packages, first, curPkg, curFile,
                   walked, allStructs, idx, result, fieldVars, annotVars>>

\* allStructs: a map from struct name to *Struct, kept as name/index pairs.
\* The loop assigns in index order, so a later struct of a name replaces an
\* earlier one.
BuildAllStructsFirstWins(structs) ==
    {[name |-> structs[i].Name, index |-> i] :
        i \in {j \in 1..Len(structs) :
                 \A k \in 1..Len(structs) : structs[k].Name = structs[j].Name => k >= j}}

BuildAllStructs(structs) ==
    {[name |-> structs[i].Name, index |-> i] :
        i \in {j \in 1..Len(structs) :
                 \A k \in 1..Len(structs) : structs[k].Name = structs[j].Name => k <= j}}

IndexStructs ==
    /\ pc = "walk"
    /\ WalkDone
    /\ packages \subseteq Range(walked)
    /\ allStructs' = BuildAllStructs(v.Structs)
    /\ idx' = 1
    /\ pc' = "link"
    /\ UNCHANGED <<dir, filenameRegex, pending, packages, first, v, curPkg, curFile,
                   pos, walked, result, fieldVars, annotVars>>

\* One round of the loop over v.Operations.
LinkOperation ==
    /\ pc = "link"
    /\ idx <= Len(v.Operations)
    /\ LET oper == v.Operations[idx]
       IN IF /\ oper.RelatedStruct # <<>>
             /\ \E e \in allStructs : e.name = oper.RelatedStruct[1].TypeName
          THEN LET found == (CHOOSE e \in allStructs :
                                e.name = oper.RelatedStruct[1].TypeName).index
               IN v' = [v EXCEPT !.Structs[found].Operations = Append(@, oper)]
          ELSE UNCHANGED v
    /\ idx' = idx + 1
    /\ UNCHANGED <<dir, filenameRegex, pc, pending, packages, first, curPkg, curFile,
                   pos, walked, allStructs, result, fieldVars, annotVars>>

Return ==
    /\ pc = "link"
    /\ idx > Len(v.Operations)
    /\ result' = [returned |-> TRUE, isNil |-> FALSE, err |-> ""]
    /\ pc' = "done"
    /\ UNCHANGED <<dir, filenameRegex, pending, packages, first, v, curPkg, curFile,
                   pos, walked, allStructs, idx, fieldVars, annotVars>>

Next ==
    \/ parseDir
    \/ ParseFile
    \/ CheckErr
    \/ WalkFile
    \/ VisitNode
    \/ IndexStructs
    \/ LinkOperation
    \/ Return

Spec == Init /\ [][Next]_vars

\* ------------------------------------------------ properties of ParseSourceDir

SelectedFiles == {f \in dir : MatchString(filenameRegex, f)}
SomeSelectedFileFails == \E f \in SelectedFiles : SourceFile(f).bad
Returned == pc = "done" /\ result.returned
Harvested == Returned /\ ~result.isNil

\* C2: if a file the pattern selects fails to parse, ParseSourceDir returns an
\* error and a nil result, whatever else parsed and in whatever order; nothing
\* is walked and nothing is cross-linked.
C2_AllOrNothing ==
    SomeSelectedFileFails =>
        /\ pc \notin {"walk", "link"}
        /\ v = EmptyVisitor
        /\ walked = <<>>
        /\ allStructs = {}
        /\ pc = "done" => result.returned /\ result.isNil /\ result.err # ""

C2_Witness ==
    /\ Returned
    /\ SomeSelectedFileFails
    /\ Cardinality(packages) >= 2
    /\ result.isNil
    /\ result.err = "broken.go"

\* The receiver's type name of an operation, the structs of that name, and the
\* entries of a struct's Operations list.
HasReceiver(op) == op.RelatedStruct # <<>>
StructsNamed(name) == {i \in 1..Len(v.Structs) : v.Structs[i].Name = name}
Owners(op) == IF HasReceiver(op) THEN StructsNamed(op.RelatedStruct[1].TypeName) ELSE {}
LastOf(S) == CHOOSE i \in S : \A j \in S : j <= i
Listed(op, i) ==
    \E e \in 1..Len(v.Structs[i].Operations) : v.Structs[i].Operations[e].Name = op.Name
RECURSIVE EntryCount(_)
EntryCount(n) == IF n = 0 THEN 0 ELSE EntryCount(n - 1) + Len(v.Structs[n].Operations)

\* Every entry of an Operations list is an operation of the harvest whose
\* receiver type is the struct's name, and there are as many entries as there
\* are operations whose receiver type names a struct; the call returns a
\* harvest and a nil error.
NoSpuriousEntry ==
    /\ ~result.isNil
    /\ result.err = ""
    /\ \A i \in 1..Len(v.Structs) :
          \A e \in 1..Len(v.Structs[i].Operations) :
             LET entry == v.Structs[i].Operations[e]
             IN /\ HasReceiver(entry)
                /\ entry.RelatedStruct[1].TypeName = v.Structs[i].Name
                /\ \E o \in 1..Len(v.Operations) : v.Operations[o] = entry
    /\ EntryCount(Len(v.Structs)) =
          Cardinality({o \in 1..Len(v.Operations) : Owners(v.Operations[o]) # {}})

\* C1: after ParseSourceDir, every struct whose Name is the receiver TypeName of
\* an operation lists that operation; an operation whose receiver type names
\* no struct adds no entry and no error.
C1_ReceiverLinkage ==
    pc = "done" /\ ~SomeSelectedFileFails =>
        /\ \A o \in 1..Len(v.Operations) :
              \A i \in Owners(v.Operations[o]) : Listed(v.Operations[o], i)
        /\ NoSpuriousEntry

\* C1 as amended: the last struct of the harvest with that Name lists it.
C1_ReceiverLinkageLastStruct ==
    pc = "done" /\ ~SomeSelectedFileFails =>
        /\ \A o \in 1..Len(v.Operations) :
              Owners(v.Operations[o]) # {} =>
                 Listed(v.Operations[o], LastOf(Owners(v.Operations[o])))
        /\ NoSpuriousEntry

C1_Witness ==
    /\ Harvested
    /\ \E o \in 1..Len(v.Operations) :
          /\ Cardinality(Owners(v.Operations[o])) = 2
          /\ Listed(v.Operations[o], LastOf(Owners(v.Operations[o])))
    /\ \E o \in 1..Len(v.Operations) :
          /\ HasReceiver(v.Operations[o])
          /\ Owners(v.Operations[o]) = {}
    /\ \E i \in 1..Len(v.Structs) : v.Structs[i].Operations = <<>>

\* What a field declaration declares, read off the syntax: the names, whether
\* the type is a slice, whether it (or the slice's element) is a pointer, and
\* the name of the plain named type under them.
DeclaredIsSlice(type) == Kind(type) = "ArrayType"
Element(type) == IF DeclaredIsSlice(type) THEN Operand(type) ELSE type
DeclaredIsPointer(type) == Kind(Element(type)) = "StarExpr"
Pointee(type) == IF DeclaredIsPointer(type) THEN Operand(Element(type)) ELSE Element(type)
DeclaredField(name, type) ==
    [Name |-> name, TypeName |-> DeclaredName(Pointee(type)),
     IsPointer |-> DeclaredIsPointer(type), IsSlice |-> DeclaredIsSlice(type)]
DeclaredGroup(decl) ==
    IF Len(decl.Names) = 0 THEN <<DeclaredField("", decl.Type)>>
    ELSE [k \in 1..Len(decl.Names) |-> DeclaredField(decl.Names[k], decl.Type)]
DeclaredFields(list) ==
    IF list.isNil THEN <<>>
    ELSE Flatten([i \in 1..Len(list.List) |-> DeclaredGroup(list.List[i])])
Signature(fs) ==
    [i \in 1..Len(fs) |->
        [Name |-> fs[i].Name, TypeName |-> fs[i].TypeName,
         IsPointer |-> fs[i].IsPointer, IsSlice |-> fs[i].IsSlice]]

IsFuncDecl(decl) == decl.kind = "FuncDecl"
DeclaredOperations ==
    Flatten([i \in 1..Len(walked) |-> SelectSeq(SourceFile(walked[i]).ast.Decls, IsFuncDecl)])

\* C7: Harvest.Operations holds one Operation per function or method declared
\* in the scanned files, with the declared Name, one Field per declared
\* parameter and result in order and of the declared TypeName, IsPointer and
\* IsSlice, and the first receiver Field as RelatedStruct if there is one.
C7_OneOperationPerDeclaration ==
    Harvested =>
        /\ Len(v.Operations) = Len(DeclaredOperations)
        /\ \A i \in 1..Len(v.Operations) :
              LET op == v.Operations[i]
                  fd == DeclaredOperations[i]
                  recv == DeclaredFields(fd.Recv)
              IN /\ op.Name = fd.Name
                 /\ Signature(op.InputArgs) = DeclaredFields(fd.Type.Params)
                 /\ Signature(op.OutputArgs) = DeclaredFields(fd.Type.Results)
                 /\ Signature(op.RelatedStruct) =
                       (IF Len(recv) >= 1 THEN <<recv[1]>> ELSE <<>>)

\* The names of the types of one shape that a file declares, in order.
DeclaredTypes(decl, shape) ==
    IF decl.kind = "GenDecl"
    THEN Flatten([i \in 1..Len(decl.Specs) |->
                    IF /\ decl.Specs[i].kind = "TypeSpec"
                       /\ NodeKind(decl.Specs[i].Type) = shape
                    THEN <<decl.Specs[i].Name>> ELSE <<>>])
    ELSE <<>>
DeclaredTypesOfFile(file, shape) ==
    Flatten([i \in 1..Len(file.Decls) |-> DeclaredTypes(file.Decls[i], shape)])
DeclaredTypesWalked(shape) ==
    Flatten([i \in 1..Len(walked) |-> DeclaredTypesOfFile(SourceFile(walked[i]).ast, shape)])
NamesOf(entities) == [i \in 1..Len(entities) |-> entities[i].Name]

\* C10: every struct and every interface type declared in a walked file,
\* later members of a grouped type declaration included, yields exactly one
\* Struct, respectively Interface.
C10_EveryTypeDeclarationHarvested ==
    Harvested =>
        /\ NamesOf(v.Structs) = DeclaredTypesWalked("StructType")
        /\ NamesOf(v.Interfaces) = DeclaredTypesWalked("InterfaceType")

\* What one call of Visit appended to a list of the visitor.
Appended(old, new) == SubSeq(new, Len(old) + 1, Len(new))

\* C6: every Struct, Interface and Operation, and every Operation in an
\* Interface's Methods, carries the package name of the file it is declared in.
C6_PackageNamePropagated ==
    [][pc = "walk" /\ pc' = "walk" /\ curFile' = curFile /\ curFile # "" =>
          LET name == PackageOf(curFile)
              structs == Appended(v.Structs, v'.Structs)
              interfaces == Appended(v.Interfaces, v'.Interfaces)
              operations == Appended(v.Operations, v'.Operations)
          IN /\ \A i \in 1..Len(structs) : structs[i].PackageName = name
             /\ \A i \in 1..Len(operations) : operations[i].PackageName = name
             /\ \A i \in 1..Len(interfaces) :
                   /\ interfaces[i].PackageName = name
                   /\ \A m \in 1..Len(interfaces[i].Methods) :
                         interfaces[i].Methods[m].PackageName = name]_vars

\* The comment lines right before a declaration: those before the type's own
\* specification when it has some, those before the declaration it is in
\* otherwise.
CommentTexts(group) ==
    IF group.isNil THEN <<>> ELSE [i \in 1..Len(group.List) |-> group.List[i].Text]
SpecNamed(decl, name) ==
    CHOOSE i \in 1..Len(decl.Specs) :
        decl.Specs[i].kind = "TypeSpec" /\ decl.Specs[i].Name = name
PrecedingComment(decl, name) ==
    LET ts == decl.Specs[SpecNamed(decl, name)]
    IN IF ts.Doc.isNil THEN decl.Doc ELSE ts.Doc
MethodNamed(decl, name, method) ==
    LET ms == decl.Specs[SpecNamed(decl, name)].Type.Methods.List
    IN ms[CHOOSE i \in 1..Len(ms) : ms[i].Names # <<>> /\ ms[i].Names[1] = method]

\* C8: the DocLines of every Struct, Interface and Operation are the comment
\* lines right before its declaration, verbatim and in order, and empty when
\* there are none.
C8_DocLinesVerbatim ==
    [][pc = "walk" /\ pc' = "walk" /\ curFile' = curFile /\ curFile # "" =>
          LET node == Walk(SourceFile(curFile).ast)[pos]
              structs == Appended(v.Structs, v'.Structs)
              interfaces == Appended(v.Interfaces, v'.Interfaces)
              operations == Appended(v.Operations, v'.Operations)
          IN /\ \A i \in 1..Len(structs) :
                   structs[i].DocLines =
                      CommentTexts(PrecedingComment(node, structs[i].Name))
             /\ \A i \in 1..Len(operations) :
                   operations[i].DocLines = CommentTexts(node.Doc)
             /\ \A i \in 1..Len(interfaces) :
                   /\ interfaces[i].DocLines =
                         CommentTexts(PrecedingComment(node, interfaces[i].Name))
                   /\ \A m \in 1..Len(interfaces[i].Methods) :
                         interfaces[i].Methods[m].DocLines =
                            CommentTexts(MethodNamed(node, interfaces[i].Name,
                                            interfaces[i].Methods[m].Name).Doc)]_vars

====
